---------------------------- MODULE Spec2Model ----------------------------
(***************************************************************************)
(* A model of the AI handwritten-notes compiler:                           *)
(*   - performance_metric.py: calculate_metrics and calculate_fitness,     *)
(*   - ocr.py: pso_text_correction, process_image and the batch loop of    *)
(*     main_menu.                                                          *)
(* Texts are sequences of one-character strings.  Fractions are exact      *)
(* rationals <<numerator, denominator>> with a positive denominator.       *)
(* Each subsystem has its own specification; the variables of the other    *)
(* subsystems stay at their idle values.                                   *)
(***************************************************************************)
EXTENDS Integers, Sequences, FiniteSets, TLC

VARIABLES
    \* performance_metric.py, calculate_metrics
    true_text, predicted_text, metrics,
    \* performance_metric.py, calculate_fitness
    fargs, fitness,
    \* ocr.py, pso_text_correction
    text, seed, rng, particles, iter, pidx, cidx, draws, pso_pc, refined, run, first_refined,
    \* ocr.py, main_menu / process_image
    images, menu_pc, img_i, attempted, saved

metric_vars  == <<true_text, predicted_text, metrics>>
fitness_vars == <<fargs, fitness>>
pso_vars     == <<text, seed, rng, particles, iter, pidx, cidx, draws, pso_pc, refined, run, first_refined>>
menu_vars    == <<images, menu_pc, img_i, attempted, saved>>
vars         == <<metric_vars, fitness_vars, pso_vars, menu_vars>>

\* An absent value is the empty tuple, a present value v is <<v>>.
None == <<>>
Some(v) == <<v>>

Min(a, b) == IF a < b THEN a ELSE b
Max(a, b) == IF a > b THEN a ELSE b

\* All sequences over S of length at most n.
SeqsUpTo(S, n) == UNION {[1..m -> S] : m \in 0..n}

-----------------------------------------------------------------------------
(* Exact fractions. *)

Rat(n, d)    == <<n, d>>
Zero         == <<0, 1>>
One          == <<1, 1>>
RatEq(a, b)  == a[1] * b[2] = b[1] * a[2]
RatLeq(a, b) == a[1] * b[2] <= b[1] * a[2]
RatLt(a, b)  == a[1] * b[2] < b[1] * a[2]
RatAdd(a, b) == <<a[1] * b[2] + b[1] * a[2], a[2] * b[2]>>
RatMul(a, b) == <<a[1] * b[1], a[2] * b[2]>>
\* a / b for b > 0
RatDiv(a, b) == <<a[1] * b[2], a[2] * b[1]>>

-----------------------------------------------------------------------------
(* performance_metric.py: calculate_metrics *)

Whitespace == {" "}

RECURSIVE SplitFrom(_, _, _)
\* str.split(): maximal runs of non-whitespace characters, in order.
SplitFrom(s, cur, acc) ==
    IF s = <<>> THEN (IF cur = <<>> THEN acc ELSE Append(acc, cur))
    ELSE IF Head(s) \in Whitespace
         THEN SplitFrom(Tail(s), <<>>, IF cur = <<>> THEN acc ELSE Append(acc, cur))
         ELSE SplitFrom(Tail(s), Append(cur, Head(s)), acc)

Split(s) == SplitFrom(s, <<>>, <<>>)

RECURSIVE Join(_)
\* ''.join(words)
Join(words) == IF words = <<>> THEN <<>> ELSE Head(words) \o Join(Tail(words))

RECURSIVE ZipCount(_, _, _)
\* sum([a[i] != b[i] ...]) (eq = FALSE) or sum([a[i] == b[i] ...]) (eq = TRUE) over zip(a, b)
ZipCount(a, b, eq) ==
    IF a = <<>> \/ b = <<>> THEN 0
    ELSE (IF (Head(a) = Head(b)) = eq THEN 1 ELSE 0) + ZipCount(Tail(a), Tail(b), eq)

WordErrorRateNoInsertions(true_words, predicted_words) ==
    LET substitutions == ZipCount(true_words, predicted_words, FALSE)
        deletions     == Len(true_words) - Len(predicted_words)
    IN  IF Len(true_words) > 0
        THEN Rat(substitutions + deletions, Len(true_words))
        ELSE Zero

WordErrorRate(true_words, predicted_words) ==
    LET substitutions == ZipCount(true_words, predicted_words, FALSE)
        deletions     == Len(true_words) - Len(predicted_words)
        insertions    == Len(predicted_words) - Len(true_words)
    IN  IF Len(true_words) > 0
        THEN Rat(substitutions + deletions + insertions, Len(true_words))
        ELSE Zero

CharErrorRate(true_words, predicted_words) ==
    LET true_chars      == Join(true_words)
        predicted_chars == Join(predicted_words)
    IN  IF Len(true_chars) > 0
        THEN Rat(ZipCount(true_chars, predicted_chars, FALSE), Len(true_chars))
        ELSE Zero

PrecisionOverReference(true_words, predicted_words) ==
    LET true_positives  == ZipCount(true_words, predicted_words, TRUE)
        false_positives == Len(true_words) - true_positives
    IN  IF true_positives + false_positives > 0
        THEN Rat(true_positives, true_positives + false_positives)
        ELSE Zero

Precision(true_words, predicted_words) ==
    LET true_positives  == ZipCount(true_words, predicted_words, TRUE)
        false_positives == Len(predicted_words) - true_positives
    IN  IF true_positives + false_positives > 0
        THEN Rat(true_positives, true_positives + false_positives)
        ELSE Zero

Recall(true_words, predicted_words) ==
    LET true_positives  == ZipCount(true_words, predicted_words, TRUE)
        false_negatives == Len(true_words) - true_positives
    IN  IF true_positives + false_negatives > 0
        THEN Rat(true_positives, true_positives + false_negatives)
        ELSE Zero

F1Score(precision, recall) ==
    IF RatLt(Zero, RatAdd(precision, recall))
    THEN RatDiv(RatMul(Rat(2, 1), RatMul(precision, recall)), RatAdd(precision, recall))
    ELSE Zero

calculate_metrics(tt, pt) ==
    LET true_words      == Split(tt)
        predicted_words == Split(pt)
        precision       == Precision(true_words, predicted_words)
        recall          == Recall(true_words, predicted_words)
    IN  [wer       |-> WordErrorRate(true_words, predicted_words),
         cer       |-> CharErrorRate(true_words, predicted_words),
         precision |-> precision,
         recall    |-> recall,
         f1_score  |-> F1Score(precision, recall)]

MetricAlphabet == {"a", "b", " "}
MaxTextLen == 5

MetricsIdle == true_text = <<>> /\ predicted_text = <<>> /\ metrics = None

MetricsInit ==
    /\ true_text \in SeqsUpTo(MetricAlphabet, MaxTextLen)
    /\ predicted_text \in SeqsUpTo(MetricAlphabet, MaxTextLen)
    /\ metrics = None

\* performance_metrics_cli, choice "1": the two files have been read.
CalculateMetrics ==
    /\ metrics = None
    /\ metrics' = Some(calculate_metrics(true_text, predicted_text))
    /\ UNCHANGED <<true_text, predicted_text>>

-----------------------------------------------------------------------------
(* performance_metric.py: calculate_fitness.  Real arguments are fixed-point *)
(* integers in units of 1/Scale; latency is in milliseconds.                 *)

max_latency == 1000
Scale == max_latency

calculate_fitness_clamped(accuracy, wer, cer, hcs, latency) ==
    LET latency_normalized == Min((latency * Scale) \div max_latency, Scale)
    IN  accuracy + (Scale - wer) + (Scale - latency_normalized) + hcs + (Scale - cer)

calculate_fitness(accuracy, wer, cer, hcs, latency) ==
    LET latency_normalized == (latency * Scale) \div max_latency
    IN  accuracy + (Scale - wer) + (Scale - latency_normalized) + hcs + (Scale - cer)

GridSteps == 2
LatencySteps == 3

\* float(input(...)) accepts any number: values below 0 and above 1 included.
UnitValues == {k * (Scale \div 2) : k \in -1..GridSteps}
LatencyValues == {k * (max_latency \div 2) : k \in -1..LatencySteps}

FitnessIdle == fargs = None /\ fitness = None

FitnessInit == FitnessIdle

\* performance_metrics_cli, choice "2"
CalculateFitness ==
    \E accuracy \in UnitValues, wer \in UnitValues, cer \in UnitValues,
       hcs \in UnitValues, latency \in LatencyValues :
        /\ fargs' = Some([accuracy |-> accuracy, wer |-> wer, cer |-> cer,
                           hcs |-> hcs, latency |-> latency])
        /\ fitness' = Some(calculate_fitness(accuracy, wer, cer, hcs, latency))

-----------------------------------------------------------------------------
(* ocr.py: pso_text_correction *)

corrections_with_period ==
    ("0" :> "O") @@ ("O" :> "0") @@ ("1" :> "l") @@ ("l" :> ".") @@
    ("5" :> "S") @@ ("S" :> "5") @@ ("B" :> "8") @@ ("8" :> "B") @@
    ("rn" :> "m") @@ ("vv" :> "w") @@ ("ll" :> "l")

corrections ==
    ("0" :> "O") @@ ("O" :> "0") @@ ("1" :> "l") @@ ("l" :> "1") @@
    ("5" :> "S") @@ ("S" :> "5") @@ ("B" :> "8") @@ ("8" :> "B") @@
    ("rn" :> "m") @@ ("vv" :> "w") @@ ("ll" :> "l")

population == 10
max_iterations == 10

\* particles = [list(text) for _ in range(10)]
InitialParticles(t) == [j \in 1..population |-> t]

ConsumesDrawAlways(c) == TRUE

\* `particle[i] in corrections and random.random() < 0.3`: the right operand,
\* and with it the draw, is evaluated only when the left one is true.
ConsumesDraw(c) == c \in DOMAIN corrections

\* The generator behind random.random(): a multiplicative congruential
\* generator of state x in 0..RngModulus-1; random.random() moves it to the next
\* state and returns x / RngModulus.
RngModulus == 29
RngMultiplier == 2
NextRng(x) == (RngMultiplier * x) % RngModulus

\* `random.random() < 0.3` for the value that state x returns
Below03(x) == 10 * x < 3 * RngModulus

MutateNeighbour(particle, i) ==
    [particle EXCEPT ![IF i = 1 THEN Len(particle) ELSE i - 1] = corrections[particle[i]]]

\* particle[i] = corrections[particle[i]]
Mutate(particle, i) == [particle EXCEPT ![i] = corrections[particle[i]]]

RECURSIVE Count(_, _)
\* list.count(c)
Count(x, c) ==
    IF x = <<>> THEN 0 ELSE (IF Head(x) = c THEN 1 ELSE 0) + Count(Tail(x), c)

\* key=lambda x: x.count(" ") + x.count(".")
Readability(x) == Count(x, " ") + Count(x, ".")

RECURSIVE MaxFrom(_, _, _)
MaxFrom(ps, j, best) ==
    IF j > Len(ps) THEN best
    ELSE MaxFrom(ps, j + 1, IF Readability(ps[j]) > Readability(ps[best]) THEN j ELSE best)

RECURSIVE MaxFromLast(_, _, _)
MaxFromLast(ps, j, best) ==
    IF j > Len(ps) THEN best
    ELSE MaxFromLast(ps, j + 1, IF Readability(ps[j]) >= Readability(ps[best]) THEN j ELSE best)

BestIndexLast(ps) == MaxFromLast(ps, 2, 1)

\* max(particles, key=...): the index of the element max() returns; a later
\* element replaces the current best only when its key is strictly greater.
BestIndex(ps) == MaxFrom(ps, 2, 1)

PsoAlphabet == {"l", "0", "n", " ", "."}
MaxLen == 2

PsoIdle ==
    /\ text = <<>> /\ seed = 0 /\ rng = 0 /\ particles = <<>>
    /\ iter = 0 /\ pidx = 0 /\ cidx = 0 /\ draws = 0
    /\ pso_pc = "idle" /\ refined = None /\ run = 0 /\ first_refined = None

\* The state on entry to the first loop, after line 53.
PsoInit ==
    /\ text \in SeqsUpTo(PsoAlphabet, MaxLen)
    /\ seed \in 1..(RngModulus - 1)
    /\ rng = seed
    /\ particles = InitialParticles(text)
    /\ iter = 0 /\ pidx = 1 /\ cidx = 1 /\ draws = 0
    /\ pso_pc = "loop" /\ refined = None /\ run = 1 /\ first_refined = None

\* The position after (iter, pidx, cidx) in the three nested loops.
Advance ==
    IF cidx < Len(particles[pidx])
    THEN /\ cidx' = cidx + 1
         /\ UNCHANGED <<iter, pidx, pso_pc>>
    ELSE IF pidx < population
    THEN /\ cidx' = 1 /\ pidx' = pidx + 1
         /\ UNCHANGED <<iter, pso_pc>>
    ELSE IF iter + 1 < max_iterations
    THEN /\ cidx' = 1 /\ pidx' = 1 /\ iter' = iter + 1
         /\ UNCHANGED pso_pc
    ELSE /\ pso_pc' = "select"
         /\ UNCHANGED <<iter, pidx, cidx>>

\* One pass of the body of `for i in range(len(particle))`.
VisitChar ==
    /\ pso_pc = "loop"
    /\ Len(particles[pidx]) > 0
    /\ LET particle == particles[pidx]
           c == particle[cidx]
       IN  IF ConsumesDraw(c)
           THEN /\ rng' = NextRng(rng)
                /\ draws' = draws + 1
                /\ particles' = IF c \in DOMAIN corrections /\ Below03(rng')
                                THEN [particles EXCEPT ![pidx] = Mutate(particle, cidx)]
                                ELSE particles
           ELSE UNCHANGED <<rng, draws, particles>>
    /\ Advance
    /\ UNCHANGED <<text, seed, refined, run, first_refined>>

\* An empty text: every inner loop has no pass.
SkipEmpty ==
    /\ pso_pc = "loop"
    /\ Len(particles[pidx]) = 0
    /\ pso_pc' = "select"
    /\ UNCHANGED <<text, seed, rng, particles, iter, pidx, cidx, draws, refined, run, first_refined>>

\* best_text = max(...); return "".join(best_text)
SelectBest ==
    /\ pso_pc = "select"
    /\ refined' = Some(particles[BestIndex(particles)])
    /\ pso_pc' = "done"
    /\ UNCHANGED <<text, seed, rng, particles, iter, pidx, cidx, draws, run, first_refined>>

\* A second call on the same text after random.seed puts the generator back
\* into the state of the same seed.
Rerun ==
    /\ pso_pc = "done"
    /\ run = 1
    /\ run' = 2
    /\ first_refined' = refined
    /\ refined' = None
    /\ particles' = InitialParticles(text)
    /\ iter' = 0 /\ pidx' = 1 /\ cidx' = 1 /\ draws' = 0
    /\ rng' = seed
    /\ pso_pc' = "loop"
    /\ UNCHANGED <<text, seed>>

-----------------------------------------------------------------------------
(* ocr.py: main_menu, process_image, extract_text, preprocess_image, save_text *)

\* What the libraries do with one image file:
\*   decodable: cv2.imread returns an image (not None),
\*   ocr:       pytesseract.image_to_string returns text ("text"), returns
\*              only whitespace ("empty") or raises ("error"),
\*   writable:  the writes in save_text succeed.
ImageKinds == [decodable : BOOLEAN, ocr : {"text", "empty", "error"}, writable : BOOLEAN]

MaxImages == 2

MenuIdle ==
    /\ images = <<>> /\ menu_pc = "idle" /\ img_i = 0
    /\ attempted = <<>> /\ saved = {}

\* main_menu is at its prompt; `data` holds the listed images.
MenuInit ==
    /\ images \in SeqsUpTo(ImageKinds, MaxImages)
    /\ menu_pc = "menu"
    /\ img_i = 0
    /\ attempted = <<>>
    /\ saved = {}

\* preprocess_image: None when the image cannot be read.
preprocess_image(img) == IF img.decodable THEN "image" ELSE "None"

\* extract_text: "None", "raise", or the stripped text ("" or "text").
extract_text(img) ==
    IF preprocess_image(img) = "None" THEN "None"
    ELSE IF img.ocr = "error" THEN "raise"
    ELSE IF img.ocr = "empty" THEN ""
    ELSE "text"

\* process_image: "raise" when the exception of the engine leaves the
\* function, "saved" when save_text wrote the files, "skipped" otherwise.
process_image(img) ==
    LET extracted_text == extract_text(img)
    IN  IF extracted_text = "raise" THEN "raise"
        ELSE IF extracted_text \in {"None", ""} THEN "skipped"
        ELSE IF img.writable THEN "saved" ELSE "skipped"

\* choice "1" with a valid number n
ChooseSingle ==
    /\ menu_pc = "menu"
    /\ \E n \in 1..Len(images) :
        LET outcome == process_image(images[n])
        IN  /\ saved' = IF outcome = "saved" THEN saved \cup {n} ELSE saved
            /\ menu_pc' = IF outcome = "raise" THEN "crashed" ELSE "menu"
    /\ UNCHANGED <<images, img_i, attempted>>

\* choice "2": list_images and the entry to the loop
ChooseBatch ==
    /\ menu_pc = "menu"
    /\ IF images = <<>>
       THEN UNCHANGED <<menu_pc, img_i, attempted>>
       ELSE /\ menu_pc' = "batch"
            /\ img_i' = 1
            /\ attempted' = <<>>
    /\ UNCHANGED <<images, saved>>

\* One pass of `for img in images: process_image(...)`.  An exception that
\* leaves process_image is caught nowhere and ends the program; after the
\* last image the menu loop is back at its prompt.
ProcessNext ==
    /\ menu_pc = "batch"
    /\ LET outcome == process_image(images[img_i])
       IN  /\ attempted' = Append(attempted, img_i)
           /\ saved' = IF outcome = "saved" THEN saved \cup {img_i} ELSE saved
           /\ IF outcome = "raise"
              THEN /\ menu_pc' = "crashed"
                   /\ UNCHANGED img_i
              ELSE IF img_i < Len(images)
              THEN /\ img_i' = img_i + 1
                   /\ UNCHANGED menu_pc
              ELSE /\ menu_pc' = "menu"
                   /\ img_i' = 0
    /\ UNCHANGED images

\* choice "3"
Exit ==
    /\ menu_pc = "menu"
    /\ menu_pc' = "exited"
    /\ UNCHANGED <<images, img_i, attempted, saved>>

-----------------------------------------------------------------------------
(* Specifications *)

MetricsNext == CalculateMetrics /\ UNCHANGED <<fitness_vars, pso_vars, menu_vars>>

InitMetrics == MetricsInit /\ FitnessIdle /\ PsoIdle /\ MenuIdle

SpecMetrics == InitMetrics /\ [][MetricsNext]_vars

FitnessNext == CalculateFitness /\ UNCHANGED <<metric_vars, pso_vars, menu_vars>>

InitFitness == MetricsIdle /\ FitnessInit /\ PsoIdle /\ MenuIdle

SpecFitness == InitFitness /\ [][FitnessNext]_vars

PsoNext ==
    \/ VisitChar /\ UNCHANGED <<metric_vars, fitness_vars, menu_vars>>
    \/ SkipEmpty /\ UNCHANGED <<metric_vars, fitness_vars, menu_vars>>
    \/ SelectBest /\ UNCHANGED <<metric_vars, fitness_vars, menu_vars>>
    \/ Rerun /\ UNCHANGED <<metric_vars, fitness_vars, menu_vars>>

InitPso == MetricsIdle /\ FitnessIdle /\ PsoInit /\ MenuIdle

SpecPso == InitPso /\ [][PsoNext]_vars

MenuNext ==
    \/ ChooseSingle /\ UNCHANGED <<metric_vars, fitness_vars, pso_vars>>
    \/ ChooseBatch /\ UNCHANGED <<metric_vars, fitness_vars, pso_vars>>
    \/ ProcessNext /\ UNCHANGED <<metric_vars, fitness_vars, pso_vars>>
    \/ Exit /\ UNCHANGED <<metric_vars, fitness_vars, pso_vars>>

InitMenu == MetricsIdle /\ FitnessIdle /\ PsoIdle /\ MenuInit

SpecMenu == InitMenu /\ [][MenuNext]_vars

-----------------------------------------------------------------------------
(* Properties of calculate_metrics *)

Computed == metrics # None
Report == metrics[1]
RefWords == Split(true_text)
HypWords == Split(predicted_text)
RefChars == Join(RefWords)
HypChars == Join(HypWords)
Overlap(a, b) == 1..Min(Len(a), Len(b))
Differing(a, b) == Cardinality({i \in Overlap(a, b) : a[i] # b[i]})
Equal(a, b) == Cardinality({i \in Overlap(a, b) : a[i] = b[i]})

\* (substitutions + deletions + insertions) / len(ref), 0 for an empty ref
ErrorRate(ref, hyp) ==
    IF Len(ref) > 0
    THEN Rat(Differing(ref, hyp) + Max(0, Len(ref) - Len(hyp)) + Max(0, Len(hyp) - Len(ref)),
             Len(ref))
    ELSE Zero

\* C1: the WER returned by calculate_metrics is (substitutions + deletions +
\* insertions) / len(ref_words) with deletions = max(0, len(ref) - len(hyp))
\* and insertions = max(0, len(hyp) - len(ref)); it is 0 for an empty
\* reference.
WerCountsLengthDifference ==
    Computed => RatEq(Report.wer, ErrorRate(RefWords, HypWords))

\* C2: the CER returned by calculate_metrics is the same formula over the
\* whitespace-free character sequences, so a length difference between the
\* character sequences contributes to it.
CerCountsLengthDifference ==
    Computed => RatEq(Report.cer, ErrorRate(RefChars, HypChars))

\* x / y, taken as 0 when y = 0
Ratio(x, y) == IF y = 0 THEN Zero ELSE Rat(x, y)
InUnitInterval(q) == RatLeq(Zero, q) /\ RatLeq(q, One)

\* C3: with TP the number of equal words over the overlapping prefix,
\* FP = len(hyp) - TP and FN = len(ref) - TP, precision = TP/(TP+FP),
\* recall = TP/(TP+FN), F1 = 2PR/(P+R), each 0 when its denominator is 0;
\* the three values lie in [0,1] and F1 is 0 when precision and recall are 0.
PrecisionRecallF1 ==
    Computed =>
        LET TP == Equal(RefWords, HypWords)
            FP == Len(HypWords) - TP
            FN == Len(RefWords) - TP
            P  == Ratio(TP, TP + FP)
            R  == Ratio(TP, TP + FN)
        IN  /\ RatEq(Report.precision, P)
            /\ RatEq(Report.recall, R)
            /\ RatEq(Report.f1_score, Ratio(2 * TP, 2 * TP + FP + FN))
            /\ InUnitInterval(Report.precision)
            /\ InUnitInterval(Report.recall)
            /\ InUnitInterval(Report.f1_score)
            /\ (RatEq(P, Zero) /\ RatEq(R, Zero) => RatEq(Report.f1_score, Zero))

\* Precision and recall are different proper fractions.
PrecisionRecallF1Witness ==
    /\ Computed
    /\ RatLt(Zero, Report.precision) /\ RatLt(Report.precision, One)
    /\ RatLt(Zero, Report.recall) /\ RatLt(Report.recall, One)
    /\ ~RatEq(Report.precision, Report.recall)

\* C4: the WER and the CER returned by calculate_metrics are non-negative,
\* and both are 0 when the two texts have the same word sequence.
ErrorRatesNonNegative ==
    Computed =>
        /\ RatLeq(Zero, Report.wer)
        /\ RatLeq(Zero, Report.cer)
        /\ (RefWords = HypWords => RatEq(Report.wer, Zero) /\ RatEq(Report.cer, Zero))

\* A hypothesis with more words than a non-empty reference.
ErrorRatesNonNegativeWitness ==
    /\ Computed
    /\ Len(RefWords) > 0
    /\ Len(HypWords) > Len(RefWords)

-----------------------------------------------------------------------------
(* Properties of calculate_fitness *)

OthersFixed(fields) ==
    \A f \in {"accuracy", "wer", "cer", "hcs", "latency"} \ fields :
        fargs'[1][f] = fargs[1][f]

FitnessStep ==
    /\ fitness' # None
    /\ fitness'[1] = fargs'[1].accuracy + (Scale - fargs'[1].wer)
                     + (Scale - fargs'[1].latency) + fargs'[1].hcs
                     + (Scale - fargs'[1].cer)
    /\ (fitness # None /\ OthersFixed({"accuracy"})
            /\ fargs'[1].accuracy > fargs[1].accuracy) => fitness'[1] > fitness[1]
    /\ (fitness # None /\ OthersFixed({"latency"})
            /\ fargs'[1].latency > fargs[1].latency) => fitness'[1] < fitness[1]

-----------------------------------------------------------------------------
(* Properties of pso_text_correction *)

Done == pso_pc = "done"
SingleKeys == {"0", "O", "1", "l", "5", "S", "B", "8"}
KeyPositions(t) == {i \in 1..Len(t) : t[i] \in SingleKeys}

\* The number of draws taken before the visit of position c of particle p in
\* round r, when draws are taken in the order round, candidate, position and
\* only at key positions.
DrawsBefore(r, p, c) ==
    (r * population + (p - 1)) * Cardinality(KeyPositions(text))
        + Cardinality({i \in KeyPositions(text) : i < c})

\* C6: two runs on the same text with the same seed return the same text;
\* the draws are consumed in the order round, candidate, position, and only
\* for positions whose current character is a table key.
SameSeedSameOutput ==
    /\ pso_pc = "loop" => draws = DrawsBefore(iter, pidx, cidx)
    /\ pso_pc \in {"select", "done"} => draws = DrawsBefore(max_iterations, 1, 1)
    /\ (run = 2 /\ Done) => refined = first_refined

\* The second run is over, draws were taken and the text was changed.
SameSeedSameOutputWitness ==
    /\ run = 2 /\ Done
    /\ draws > 0
    /\ refined # Some(text)
    /\ KeyPositions(text) # 1..Len(text)

MaxReadability(ps) ==
    CHOOSE m \in {Readability(ps[j]) : j \in 1..Len(ps)} :
        \A j \in 1..Len(ps) : Readability(ps[j]) <= m

\* C8: the returned text is the candidate whose count of spaces plus periods
\* is maximal, and among several such candidates the one of lowest index.
ReturnsFirstMaximal ==
    Done =>
        LET j == CHOOSE h \in 1..population :
                    /\ Readability(particles[h]) = MaxReadability(particles)
                    /\ \A g \in 1..(h - 1) :
                        Readability(particles[g]) < MaxReadability(particles)
        IN  refined = Some(particles[j])

\* A finished run whose candidates differ from the returned one and score
\* above 0.
ReturnsFirstMaximalWitness ==
    /\ Done
    /\ Readability(particles[1]) > 0
    /\ \E j \in 2..population :
        /\ particles[j] # particles[1]
        /\ Readability(particles[j]) = Readability(particles[1])

RECURSIVE LookupClosure(_)
\* The characters reachable from the characters of S by table lookups.
LookupClosure(S) ==
    LET T == S \cup {corrections[c] : c \in S \cap DOMAIN corrections}
    IN  IF T = S THEN S ELSE LookupClosure(T)

Substituted(t, x) ==
    /\ Len(x) = Len(t)
    /\ \A i \in 1..Len(t) :
        IF t[i] \in DOMAIN corrections
        THEN x[i] \in LookupClosure({t[i]})
        ELSE x[i] = t[i]

\* C9: the output has the length of the input, every position whose input
\* character is not a table key keeps it, every other position holds a
\* character reachable from the input character by repeated lookups; the
\* multi-character keys never fire.
OnlySubstitutes ==
    /\ \A j \in 1..population : Substituted(text, particles[j])
    /\ Done => Substituted(text, refined[1])
    /\ Done => \A i \in 1..Len(text) : refined[1][i] \notin {"m", "w"}

\* A finished run on a text that holds the key "ll" and a character that is
\* not a key, with a changed output.
OnlySubstitutesWitness ==
    /\ Done
    /\ refined # Some(text)
    /\ \E i \in 1..(Len(text) - 1) : text[i] = "l" /\ text[i + 1] = "l"

\* C10: at every point of a run each candidate has as many spaces plus
\* periods as the input text, so all candidates tie and the returned text is
\* the first candidate.
AllCandidatesTie ==
    /\ \A j \in 1..population : Readability(particles[j]) = Readability(text)
    /\ Done => refined = Some(particles[1])

\* A finished run with spaces or periods in the text, in which the first
\* candidate was changed and another candidate differs from it.
AllCandidatesTieWitness ==
    /\ Done
    /\ Readability(text) > 0
    /\ particles[1] # text
    /\ \E j \in 2..population : particles[j] # particles[1]

-----------------------------------------------------------------------------
(* Properties of the batch mode of main_menu *)

Failing(img) == ~img.decodable \/ img.ocr # "text"

\* C7: in batch mode an image whose decoding or recognition fails is skipped,
\* nothing is saved for it, every later image of the list is processed in
\* list order, and a failing image never ends the run.
BatchSkipsFailedImage ==
    /\ ~(menu_pc = "crashed" /\ img_i > 0)
    /\ (menu_pc # "batch" /\ attempted # <<>>) => attempted = [i \in 1..Len(images) |-> i]
    /\ \A i \in saved : ~Failing(images[i])

====
